---------------------------- MODULE Spec2Model ----------------------------
(***************************************************************************)
(* Model of ssh_comm/surface_computer.py: the surface-side control window  *)
(* of the BabyROV.  ThrusterControl is the forward/backward interlock,     *)
(* ControlWindow binds keys to the interlock, to the two sensor reads and  *)
(* to the marker dropper, and relays commands over self.ssh.               *)
(*                                                                         *)
(* marker_dropper.py and ssh.py are imported by the file but are not part  *)
(* of the sources at hand; MarkerDropper and SSH.exec_and_print are        *)
(* modelled from the written specification (sections 4.1 and 4.3).         *)
(***************************************************************************)
EXTENDS Integers, Sequences, FiniteSets, TLC

\* ------------------------------------------------------------------ bounds

\* How many distinct texts a remote sensor script may answer with.
NumReadings == 2

ReadingTexts == <<"7.01", "21.5", "3.98", "18.2">>

Readings == {ReadingTexts[i] : i \in 1..NumReadings}

\* --------------------------------------------------------------- constants

THRUSTER_BACKWARD_KEY == "s"
THRUSTER_FORWARD_KEY == "w"
TEMP_SENSOR_KEY == "t"
PH_SENSOR_KEY == "p"
DROP_RED_KEY == "r"
DROP_BLACK_KEY == "b"

\* The events bound in _bind_keys: '<KeyPress-{}>' and '<KeyRelease-{}>'.
KeyPress(key) == <<"KeyPress", key>>
KeyRelease(key) == <<"KeyRelease", key>>

\* The str.format templates, as the text that precedes {READING}.
TEMP_TEXT == "Last Temperature\nReading: "
PH_TEXT == "Last pH Reading: \n"

\* Default arguments of ControlWindow.__init__.
red == <<1, 2, 3>>
black == <<5, 6, 7>>

Classes == {"red", "black"}

\* The remote command lines.
PigpiodCmd == <<"sudo pigpiod">>
TempCmd == <<"python ~/temp_reading.py">>
PhCmd == <<"python ph_reading.py">>

\* Python's None, as returned for cmd by an exhausted magazine.
None == <<>>

\* The outcomes of one blocking call of SSH.exec_and_print.
Outcomes == {"ok", "err", "hang"}

VARIABLES
    thruster,       \* ThrusterControl: forward, backward, text_output
    ph_reading,     \* the pH SettableText
    temp_reading,   \* the temperature SettableText
    markerdropper,  \* MarkerDropper: cursor per class, class of the last fire
    hung,           \* mainloop is inside an exec_and_print that never returns
    pc,             \* where ControlWindow.__init__ stands; "mainloop" once it is through
    use_zero,       \* the use_zero argument of ControlWindow.__init__
    ssh,            \* self.ssh, the session to the companion (Pi 3)
    zero_ssh,       \* self.zero_ssh, the session to the Pi Zero
    connections,    \* the hosts the surface computer opened a network connection to
    queue,          \* key events delivered to the window and not yet handled
    call,           \* the handler that is inside exec_and_print, if one is
    turn,           \* what the most recent event turn did
    \* history, read by the properties only
    okFired,        \* per class, the positions whose invocation returned
    failedCmd,      \* per class, the command of the last fire if its invocation failed
    released,       \* directions released since the last key press
    down,           \* thruster keys pressed and not released since
    scenario        \* progress through OFF, press w, press s, release w

relay == <<use_zero, ssh, zero_ssh, connections>>

loop == <<queue, call>>

gui == <<thruster, ph_reading, temp_reading, markerdropper>>

history == <<okFired, failedCmd, released, down, scenario>>

vars == <<thruster, ph_reading, temp_reading, markerdropper, hung, turn,
          pc, use_zero, ssh, zero_ssh, connections, queue, call,
          okFired, failedCmd, released, down, scenario>>

\* ------------------------------------------------------------ SettableText

\* SettableText.set_text on the thruster display: the old text is deleted,
\* the new one inserted; the write is logged.
set_text(s, newtext) ==
    [s EXCEPT !.text_output = newtext, !.writes = Append(@, newtext)]

\* A text is the sequence of its pieces.  str.format of a sensor template: the
\* template's text, then the reading.
Format(template, reading) == <<template, reading>>

\* --------------------------------------------------------- ThrusterControl
\* The methods act on s = [forward, backward, text_output, writes, invoked]:
\* the object's fields, the set_text calls made on text_output and the commands
\* sent on self.ssh during the current turn.

\* Faulty variant: the guard of thruster_forward dropped, every press re-activates.
thruster_forward_Unguarded(s) ==
    [set_text(s, "Thruster Forward") EXCEPT !.forward = TRUE]

thruster_forward(s) ==
    IF ~s.forward /\ ~s.backward
    THEN [set_text(s, "Thruster Forward") EXCEPT !.forward = TRUE]
    ELSE s

\* Faulty variant: thruster_backward looks at its own flag only.
thruster_backward_NoInterlock(s) ==
    IF ~s.backward
    THEN [set_text(s, "Thruster Backward") EXCEPT !.backward = TRUE]
    ELSE s

\* Faulty variant: the text of thruster_forward left in place.
thruster_backward_WrongText(s) ==
    IF ~s.forward /\ ~s.backward
    THEN [set_text(s, "Thruster Forward") EXCEPT !.backward = TRUE]
    ELSE s

thruster_backward(s) ==
    IF ~s.forward /\ ~s.backward
    THEN [set_text(s, "Thruster Backward") EXCEPT !.backward = TRUE]
    ELSE s

\* Faulty variant: the release writes "Thruster Off" without looking at backward.
thruster_forward_off_Unconditional(s) ==
    set_text([s EXCEPT !.forward = FALSE], "Thruster Off")

\* Faulty variant: the release does not clear its flag while the other key's
\* handler is to take over.
thruster_forward_off_NoClear(s) ==
    IF ~s.backward
    THEN set_text(s, "Thruster Off")
    ELSE thruster_backward([s EXCEPT !.forward = FALSE])

thruster_forward_off(s) ==
    LET s1 == [s EXCEPT !.forward = FALSE]
    IN  IF ~s1.backward
        THEN set_text(s1, "Thruster Off")
        ELSE thruster_backward(s1)

\* Faulty variant: thruster_forward_off pasted without renaming the flags.
thruster_backward_off_Pasted(s) ==
    LET s1 == [s EXCEPT !.forward = FALSE]
    IN  IF ~s1.backward
        THEN set_text(s1, "Thruster Off")
        ELSE thruster_backward(s1)

\* Faulty variant: the commented-out gpio command of the release sent again.
thruster_backward_off_Gpio(s) ==
    LET s1 == [s EXCEPT !.backward = FALSE, !.invoked = Append(@, <<"gpio write 4 0">>)]
    IN  IF ~s1.forward
        THEN set_text(s1, "Thruster Off")
        ELSE thruster_forward(s1)

thruster_backward_off(s) ==
    LET s1 == [s EXCEPT !.backward = FALSE]
    IN  IF ~s1.forward
        THEN set_text(s1, "Thruster Off")
        ELSE thruster_forward(s1)

\* ThrusterControl.__init__
ThrusterControlInit ==
    thruster_backward_off(thruster_forward_off(
        [forward |-> FALSE, backward |-> FALSE, text_output |-> "",
         writes |-> <<>>, invoked |-> <<>>]))

\* ----------------------------------------------------------- MarkerDropper
\* md = [cursor, pending]; modelled from section 4.3 of the specification.

Markers(class) == IF class = "red" THEN red ELSE black

MarkerCmd(position) == <<"drop_marker", position>>

MarkerDropperInit == [cursor |-> [c \in Classes |-> 0], pending |-> "none"]

\* fire(class): (cmd, has_markers) and the dropper afterwards.
drop(md, class) ==
    IF md.cursor[class] = Len(Markers(class))
    THEN [cmd |-> None, has_markers |-> FALSE, md |-> md]
    ELSE [cmd |-> MarkerCmd(Markers(class)[md.cursor[class] + 1]),
          has_markers |-> TRUE,
          md |-> [md EXCEPT !.pending = class]]

drop_red_marker(md) == drop(md, "red")

drop_black_marker(md) == drop(md, "black")

\* confirm: success() names no class, it advances the class of the last fire.
success(md) ==
    IF md.pending \in Classes
    THEN [md EXCEPT !.cursor[md.pending] = @ + 1]
    ELSE md

\* --------------------------------------------------------------------- SSH
\* A session is [open, host, sock]; modelled from section 4.1 of the
\* specification (open(target, via)).

COMPANION == "SSH.COMPANION"
ZERO == "SSH.ZERO"

\* The address and port of the Pi 3, as seen by the surface computer.
companion_addr == <<COMPANION, 22>>

\* The address and port of the Pi Zero, as seen by the Pi 3.
zero_addr == <<"SSH.ZERO.ip", 22>>

Closed == [open |-> FALSE, host |-> "", sock |-> <<>>]

\* SSH(host, sock=...): sock is <<>> for a session that connects by itself, or
\* holds the channel the session runs over.
SSH(host, sock) == [open |-> TRUE, host |-> host, sock |-> sock]

\* The network connections after SSH(host, sock=...): one more, to host, when
\* no sock is given.
Connected(conns, host, sock) == IF sock = <<>> THEN Append(conns, host) ELSE conns

\* Transport.open_channel(kind, dest_addr, src_addr) on the transport of self.ssh.
open_channel(kind, dest_addr, src_addr) ==
    [kind |-> kind, dest_addr |-> dest_addr, src_addr |-> src_addr, transport |-> "ssh"]

\* ----------------------------------------------------------- ControlWindow
\* mainloop delivers one key event at a time and runs its handler to the end
\* before the next: each handler is one step.  Any key event may come at any
\* time (a press repeats while the key is held; a press or a release is lost
\* when the window is not in focus).  A handler that calls exec_and_print
\* gets its text back, sees it raise, or never gets out of it.

\* The state Init describes is that after ControlWindow(), as __main__ calls
\* it, at the entry of mainloop.
\* The handlers run in mainloop, one at a time.
Running == pc = "mainloop" /\ ~hung

Idle(ev) ==
    [ev |-> ev, writes |-> <<>>, invoked |-> <<>>, result |-> "none",
     via |-> <<>>, cmd |-> None, has_markers |-> FALSE, confirmed |-> FALSE,
     reading |-> ""]

Init ==
    /\ thruster = [f \in {"forward", "backward", "text_output"} |-> ThrusterControlInit[f]]
    /\ ph_reading = Format(PH_TEXT, "N/A")
    /\ temp_reading = Format(TEMP_TEXT, "N/A")
    /\ markerdropper = MarkerDropperInit
    /\ hung = FALSE
    /\ pc = "mainloop"
    /\ use_zero = FALSE
    /\ ssh = SSH(COMPANION, <<>>)
    /\ zero_ssh = Closed
    /\ connections = <<COMPANION>>
    /\ queue = <<>>
    /\ call = <<>>
    /\ turn = [Idle(<<"__init__">>) EXCEPT !.invoked = <<PigpiodCmd>>, !.via = <<"ssh">>,
                                   !.result = "ok",
                                   !.writes = ThrusterControlInit.writes]
    /\ okFired = [c \in Classes |-> <<>>]
    /\ failedCmd = [c \in Classes |-> None]
    /\ released = {}
    /\ down = {}
    /\ scenario = 0

\* --------------------------------------------------------------- history

\* The class a drop key stands for (the red argument bound with partial).
EventClass(ev) ==
    IF ev = KeyPress(DROP_RED_KEY) THEN "red"
    ELSE IF ev = KeyPress(DROP_BLACK_KEY) THEN "black"
    ELSE "none"

IsPress(ev) == ev \in {KeyPress(THRUSTER_FORWARD_KEY), KeyPress(THRUSTER_BACKWARD_KEY)}

Observe ==
    /\ okFired' = [c \in Classes |->
          IF EventClass(turn'.ev) = c /\ turn'.result = "ok"
          THEN okFired[c] \o turn'.invoked ELSE okFired[c]]
    /\ failedCmd' = [c \in Classes |->
          IF EventClass(turn'.ev) = c
          THEN (IF turn'.result = "err" THEN turn'.cmd ELSE None)
          ELSE failedCmd[c]]
    /\ released' = IF IsPress(turn'.ev) THEN {}
                   ELSE IF turn'.ev = KeyRelease(THRUSTER_FORWARD_KEY)
                        THEN released \cup {"forward"}
                   ELSE IF turn'.ev = KeyRelease(THRUSTER_BACKWARD_KEY)
                        THEN released \cup {"backward"}
                   ELSE released
    /\ down' = IF turn'.ev[1] = "KeyPress" /\ IsPress(turn'.ev)
                THEN down \cup {turn'.ev[2]}
                ELSE IF turn'.ev[1] = "KeyRelease" THEN down \ {turn'.ev[2]}
                ELSE down
    /\ scenario' =
          IF scenario = 1 /\ turn'.ev = KeyPress(THRUSTER_BACKWARD_KEY) THEN 2
          ELSE IF scenario = 2 /\ turn'.ev = KeyRelease(THRUSTER_FORWARD_KEY) THEN 3
          ELSE IF /\ ~thruster.forward /\ ~thruster.backward
                  /\ turn'.ev = KeyPress(THRUSTER_FORWARD_KEY) THEN 1
          ELSE 0

\* One key event delivered to a ThrusterControl method.
ThrusterEvent(ev, s2) ==
    /\ Running
    /\ thruster' = [f \in {"forward", "backward", "text_output"} |-> s2[f]]
    /\ turn' = [Idle(ev) EXCEPT !.writes = s2.writes, !.invoked = s2.invoked,
                    !.via = [i \in 1..Len(s2.invoked) |-> "thruster.ssh"]]
    /\ UNCHANGED <<ph_reading, temp_reading, markerdropper, hung, pc, relay, loop>>

\* The ThrusterControl as a handler finds it, nothing yet written this turn.
Entering ==
    [forward |-> thruster.forward, backward |-> thruster.backward,
     text_output |-> thruster.text_output, writes |-> <<>>, invoked |-> <<>>]

KeyPress_w == ThrusterEvent(KeyPress(THRUSTER_FORWARD_KEY), thruster_forward(Entering)) /\ Observe

KeyRelease_w ==
    /\ ThrusterEvent(KeyRelease(THRUSTER_FORWARD_KEY), thruster_forward_off(Entering))
    /\ Observe

KeyPress_s == ThrusterEvent(KeyPress(THRUSTER_BACKWARD_KEY), thruster_backward(Entering)) /\ Observe

KeyRelease_s ==
    /\ ThrusterEvent(KeyRelease(THRUSTER_BACKWARD_KEY), thruster_backward_off(Entering))
    /\ Observe

\* Faulty variant: the reading lands in the pH box.
read_temp_sensor_WrongBox ==
    /\ Running
    /\ \E res \in Outcomes, reading \in Readings :
        /\ ph_reading' = IF res = "ok" THEN Format(TEMP_TEXT, reading) ELSE ph_reading
        /\ hung' = (res = "hang")
        /\ turn' = [Idle(KeyPress(TEMP_SENSOR_KEY)) EXCEPT
                        !.invoked = <<TempCmd>>, !.via = <<"ssh">>, !.result = res,
                        !.reading = IF res = "ok" THEN reading ELSE ""]
    /\ UNCHANGED <<thruster, temp_reading, markerdropper, pc, relay, loop>>

read_temp_sensor ==
    /\ Running
    /\ \E res \in Outcomes, reading \in Readings :
        /\ temp_reading' = IF res = "ok" THEN Format(TEMP_TEXT, reading) ELSE temp_reading
        /\ hung' = (res = "hang")
        /\ turn' = [Idle(KeyPress(TEMP_SENSOR_KEY)) EXCEPT
                        !.invoked = <<TempCmd>>, !.via = <<"ssh">>, !.result = res,
                        !.reading = IF res = "ok" THEN reading ELSE ""]
    /\ UNCHANGED <<thruster, ph_reading, markerdropper, pc, relay, loop>>

\* Faulty variant: the pH sensor read on the Pi Zero when there is one.
read_ph_sensor_OnZero ==
    /\ Running
    /\ \E res \in Outcomes, reading \in Readings :
        /\ ph_reading' = IF res = "ok" THEN Format(PH_TEXT, reading) ELSE ph_reading
        /\ hung' = (res = "hang")
        /\ turn' = [Idle(KeyPress(PH_SENSOR_KEY)) EXCEPT
                        !.invoked = <<PhCmd>>, !.result = res,
                        !.via = IF use_zero THEN <<"zero_ssh">> ELSE <<"ssh">>,
                        !.reading = IF res = "ok" THEN reading ELSE ""]
    /\ UNCHANGED <<thruster, temp_reading, markerdropper, pc, relay, loop>>

read_ph_sensor ==
    /\ Running
    /\ \E res \in Outcomes, reading \in Readings :
        /\ ph_reading' = IF res = "ok" THEN Format(PH_TEXT, reading) ELSE ph_reading
        /\ hung' = (res = "hang")
        /\ turn' = [Idle(KeyPress(PH_SENSOR_KEY)) EXCEPT
                        !.invoked = <<PhCmd>>, !.via = <<"ssh">>, !.result = res,
                        !.reading = IF res = "ok" THEN reading ELSE ""]
    /\ UNCHANGED <<thruster, temp_reading, markerdropper, pc, relay, loop>>

KeyPress_t == read_temp_sensor /\ Observe

KeyPress_p == read_ph_sensor /\ Observe

\* Faulty variant: success() in a finally clause, called whether or not the call raised.
drop_marker_ConfirmAlways(isRed) ==
    /\ Running
    /\ LET f == IF isRed THEN drop_red_marker(markerdropper)
                         ELSE drop_black_marker(markerdropper)
           ev == IF isRed THEN KeyPress(DROP_RED_KEY) ELSE KeyPress(DROP_BLACK_KEY)
       IN  IF f.has_markers
           THEN \E res \in Outcomes :
                   /\ markerdropper' = IF res # "hang" THEN success(f.md) ELSE f.md
                   /\ hung' = (res = "hang")
                   /\ turn' = [Idle(ev) EXCEPT !.cmd = f.cmd, !.has_markers = TRUE,
                                   !.invoked = <<f.cmd>>, !.via = <<"ssh">>, !.result = res,
                                   !.confirmed = (res # "hang")]
           ELSE /\ markerdropper' = f.md
                /\ hung' = hung
                /\ turn' = [Idle(ev) EXCEPT !.cmd = f.cmd]
    /\ UNCHANGED <<thruster, ph_reading, temp_reading, pc, relay, loop>>

\* Faulty variant: success() called twice after the invocation.
drop_marker_ConfirmTwice(isRed) ==
    /\ Running
    /\ LET f == IF isRed THEN drop_red_marker(markerdropper)
                         ELSE drop_black_marker(markerdropper)
           ev == IF isRed THEN KeyPress(DROP_RED_KEY) ELSE KeyPress(DROP_BLACK_KEY)
       IN  IF f.has_markers
           THEN \E res \in Outcomes :
                   /\ markerdropper' = IF res = "ok" THEN success(success(f.md)) ELSE f.md
                   /\ hung' = (res = "hang")
                   /\ turn' = [Idle(ev) EXCEPT !.cmd = f.cmd, !.has_markers = TRUE,
                                   !.invoked = <<f.cmd>>, !.via = <<"ssh">>, !.result = res,
                                   !.confirmed = (res = "ok")]
           ELSE /\ markerdropper' = f.md
                /\ hung' = hung
                /\ turn' = [Idle(ev) EXCEPT !.cmd = f.cmd]
    /\ UNCHANGED <<thruster, ph_reading, temp_reading, pc, relay, loop>>

\* Faulty variant: the two branches on red swapped.
drop_marker_Swapped(isRed) ==
    /\ Running
    /\ LET f == IF isRed THEN drop_black_marker(markerdropper)
                         ELSE drop_red_marker(markerdropper)
           ev == IF isRed THEN KeyPress(DROP_RED_KEY) ELSE KeyPress(DROP_BLACK_KEY)
       IN  IF f.has_markers
           THEN \E res \in Outcomes :
                   /\ markerdropper' = IF res = "ok" THEN success(f.md) ELSE f.md
                   /\ hung' = (res = "hang")
                   /\ turn' = [Idle(ev) EXCEPT !.cmd = f.cmd, !.has_markers = TRUE,
                                   !.invoked = <<f.cmd>>, !.via = <<"ssh">>, !.result = res,
                                   !.confirmed = (res = "ok")]
           ELSE /\ markerdropper' = f.md
                /\ hung' = hung
                /\ turn' = [Idle(ev) EXCEPT !.cmd = f.cmd]
    /\ UNCHANGED <<thruster, ph_reading, temp_reading, pc, relay, loop>>

\* Faulty variant: has_markers not tested, the command is sent and confirmed regardless.
drop_marker_NoMarkerTest(isRed) ==
    /\ Running
    /\ LET f == IF isRed THEN drop_red_marker(markerdropper)
                         ELSE drop_black_marker(markerdropper)
           ev == IF isRed THEN KeyPress(DROP_RED_KEY) ELSE KeyPress(DROP_BLACK_KEY)
       IN  \E res \in Outcomes :
               /\ markerdropper' = IF res = "ok" THEN success(f.md) ELSE f.md
               /\ hung' = (res = "hang")
               /\ turn' = [Idle(ev) EXCEPT !.cmd = f.cmd, !.has_markers = f.has_markers,
                               !.invoked = <<f.cmd>>, !.via = <<"ssh">>, !.result = res,
                               !.confirmed = (res = "ok")]
    /\ UNCHANGED <<thruster, ph_reading, temp_reading, pc, relay, loop>>

\* Faulty variant: success() dedented out of the if, called after every fire.
drop_marker_ConfirmOutsideIf(isRed) ==
    /\ Running
    /\ LET f == IF isRed THEN drop_red_marker(markerdropper)
                         ELSE drop_black_marker(markerdropper)
           ev == IF isRed THEN KeyPress(DROP_RED_KEY) ELSE KeyPress(DROP_BLACK_KEY)
       IN  IF f.has_markers
           THEN \E res \in Outcomes :
                   /\ markerdropper' = IF res = "ok" THEN success(f.md) ELSE f.md
                   /\ hung' = (res = "hang")
                   /\ turn' = [Idle(ev) EXCEPT !.cmd = f.cmd, !.has_markers = TRUE,
                                   !.invoked = <<f.cmd>>, !.via = <<"ssh">>, !.result = res,
                                   !.confirmed = (res = "ok")]
           ELSE /\ markerdropper' = success(f.md)
                /\ hung' = hung
                /\ turn' = [Idle(ev) EXCEPT !.cmd = f.cmd, !.confirmed = TRUE]
    /\ UNCHANGED <<thruster, ph_reading, temp_reading, pc, relay, loop>>

drop_marker(isRed) ==
    /\ Running
    /\ LET f == IF isRed THEN drop_red_marker(markerdropper)
                         ELSE drop_black_marker(markerdropper)
           ev == IF isRed THEN KeyPress(DROP_RED_KEY) ELSE KeyPress(DROP_BLACK_KEY)
       IN  IF f.has_markers
           THEN \E res \in Outcomes :
                   /\ markerdropper' = IF res = "ok" THEN success(f.md) ELSE f.md
                   /\ hung' = (res = "hang")
                   /\ turn' = [Idle(ev) EXCEPT !.cmd = f.cmd, !.has_markers = TRUE,
                                   !.invoked = <<f.cmd>>, !.via = <<"ssh">>, !.result = res,
                                   !.confirmed = (res = "ok")]
           ELSE /\ markerdropper' = f.md
                /\ hung' = hung
                /\ turn' = [Idle(ev) EXCEPT !.cmd = f.cmd]
    /\ UNCHANGED <<thruster, ph_reading, temp_reading, pc, relay, loop>>

KeyPress_r == drop_marker(TRUE) /\ Observe

KeyPress_b == drop_marker(FALSE) /\ Observe

Next ==
    \/ KeyPress_w
    \/ KeyRelease_w
    \/ KeyPress_s
    \/ KeyRelease_s
    \/ KeyPress_t
    \/ KeyPress_p
    \/ KeyPress_r
    \/ KeyPress_b

Spec == Init /\ [][Next]_vars


\* ------------------------------------------------- ControlWindow.__init__
\* The constructor statement by statement, for either value of use_zero.  A
\* session or channel that cannot be opened raises, and so does a failed
\* exec_and_print: the constructor is left and no window comes up.

InitBoot ==
    /\ pc = "ssh"
    /\ use_zero \in BOOLEAN
    /\ ssh = Closed
    /\ zero_ssh = Closed
    /\ connections = <<>>
    /\ thruster = [forward |-> FALSE, backward |-> FALSE, text_output |-> ""]
    /\ ph_reading = <<>>
    /\ temp_reading = <<>>
    /\ markerdropper = MarkerDropperInit
    /\ hung = FALSE
    /\ queue = <<>>
    /\ call = <<>>
    /\ turn = Idle(<<"__init__">>)
    /\ okFired = [c \in Classes |-> <<>>]
    /\ failedCmd = [c \in Classes |-> None]
    /\ released = {}
    /\ down = {}
    /\ scenario = 0

\* self.ssh = SSH(SSH.COMPANION)
init_ssh ==
    /\ pc = "ssh"
    /\ \E opened \in BOOLEAN :
          IF opened
          THEN /\ ssh' = SSH(COMPANION, <<>>)
               /\ connections' = Connected(connections, COMPANION, <<>>)
               /\ pc' = "zero"
          ELSE /\ pc' = "failed"
               /\ UNCHANGED <<ssh, connections>>
    /\ UNCHANGED <<use_zero, zero_ssh, gui, hung, turn, loop, history>>

\* Faulty variant: the Pi Zero dialled directly, no sock given.
init_zero_NoSock ==
    /\ pc = "zero"
    /\ IF use_zero
       THEN \E opened \in BOOLEAN :
               IF opened
               THEN /\ zero_ssh' = SSH(ZERO, <<>>)
                    /\ connections' = Connected(connections, ZERO, <<>>)
                    /\ pc' = "pigpiod"
               ELSE /\ pc' = "failed"
                    /\ UNCHANGED <<zero_ssh, connections>>
       ELSE /\ pc' = "pigpiod"
            /\ UNCHANGED <<zero_ssh, connections>>
    /\ UNCHANGED <<use_zero, ssh, gui, hung, turn, loop, history>>

\* transport = self.ssh.get_transport() ... self.zero_ssh = SSH(SSH.ZERO, sock=channel)
init_zero ==
    /\ pc = "zero"
    /\ IF use_zero
       THEN \E opened \in BOOLEAN :
               IF opened
               THEN LET channel == open_channel("direct-tcpip", zero_addr, companion_addr)
                    IN  /\ zero_ssh' = SSH(ZERO, <<channel>>)
                        /\ connections' = Connected(connections, ZERO, <<channel>>)
                        /\ pc' = "pigpiod"
               ELSE /\ pc' = "failed"
                    /\ UNCHANGED <<zero_ssh, connections>>
       ELSE /\ pc' = "pigpiod"
            /\ UNCHANGED <<zero_ssh, connections>>
    /\ UNCHANGED <<use_zero, ssh, gui, hung, turn, loop, history>>

\* self.ssh.exec_and_print('sudo pigpiod')
init_pigpiod ==
    /\ pc = "pigpiod" /\ ~hung
    /\ \E res \in Outcomes :
          /\ turn' = [Idle(<<"__init__">>) EXCEPT !.invoked = <<PigpiodCmd>>,
                          !.via = <<"ssh">>, !.result = res]
          /\ hung' = (res = "hang")
          /\ pc' = IF res = "ok" THEN "gui" ELSE IF res = "err" THEN "failed" ELSE pc
    /\ UNCHANGED <<relay, gui, loop, history>>

\* self.master = Tk() ... self._bind_keys()
init_gui ==
    /\ pc = "gui"
    /\ markerdropper' = MarkerDropperInit
    /\ thruster' = [f \in {"forward", "backward", "text_output"} |-> ThrusterControlInit[f]]
    /\ ph_reading' = Format(PH_TEXT, "N/A")
    /\ temp_reading' = Format(TEMP_TEXT, "N/A")
    /\ turn' = [turn EXCEPT !.writes = ThrusterControlInit.writes]
    /\ pc' = "mainloop"
    /\ UNCHANGED <<relay, hung, loop, history>>

NextBoot ==
    \/ init_ssh
    \/ init_zero
    \/ init_pigpiod
    \/ init_gui
    \/ KeyPress_w
    \/ KeyRelease_w
    \/ KeyPress_s
    \/ KeyRelease_s
    \/ KeyPress_t
    \/ KeyPress_p
    \/ KeyPress_r
    \/ KeyPress_b

SpecBoot == InitBoot /\ [][NextBoot]_vars

\* -------------------------------------------------------------- properties

Off == ~thruster.forward /\ ~thruster.backward

ThrusterEvents ==
    {KeyPress(THRUSTER_FORWARD_KEY), KeyRelease(THRUSTER_FORWARD_KEY),
     KeyPress(THRUSTER_BACKWARD_KEY), KeyRelease(THRUSTER_BACKWARD_KEY)}

\* C1: in every state reached by any sequence of press and release events the
\* flags forward and backward are never both true.
C1_NeverBothDirections == ~(thruster.forward /\ thruster.backward)

\* The opposing key was pressed while forward was active, and forward still is.
C1_Witness == thruster.forward /\ turn.ev = KeyPress(THRUSTER_BACKWARD_KEY)

\* C2: a press is accepted only from rest.  From OFF it changes the state and
\* writes the display; with FORWARD or BACKWARD active it changes no flag and
\* writes nothing.  A press of w right after a press of w that left FORWARD
\* active leaves FORWARD active and writes nothing.
C2_PressOnlyFromRest ==
    [][ /\ IsPress(turn'.ev) =>
             IF Off
             THEN /\ thruster' # thruster
                  /\ Len(turn'.writes) = 1
                  /\ thruster'.text_output = turn'.writes[1]
             ELSE /\ thruster' = thruster
                  /\ turn'.writes = <<>>
        /\ ( /\ turn.ev = KeyPress(THRUSTER_FORWARD_KEY) /\ thruster.forward
             /\ turn'.ev = KeyPress(THRUSTER_FORWARD_KEY) ) =>
             /\ thruster'.forward /\ ~thruster'.backward
             /\ turn'.writes = <<>>
      ]_vars

\* A press of w arrived while forward was already active and wrote nothing.
C2_Witness == turn.ev = KeyPress(THRUSTER_FORWARD_KEY) /\ thruster.forward /\ turn.writes = <<>>

cursor == markerdropper.cursor

\* The command a fire of class c issues at cursor position k (0-based).
CmdAt(c, k) == MarkerCmd(Markers(c)[k + 1])

\* C3: when the invocation of a fire-produced command fails, success() is not
\* called and no cursor moves; the next fire of that class, whenever it comes,
\* produces the identical command.
C3_FailedFireIsRetried ==
    [][ /\ (EventClass(turn'.ev) \in Classes /\ turn'.result = "err") =>
             /\ ~turn'.confirmed
             /\ cursor' = cursor
        /\ \A c \in Classes :
             (failedCmd[c] # None /\ EventClass(turn'.ev) = c) =>
                 /\ turn'.has_markers
                 /\ turn'.cmd = failedCmd[c]
                 /\ turn'.invoked = <<failedCmd[c]>>
      ]_vars

\* The fire of the second red marker has just failed, one black marker having
\* been dropped before: the red cursor is still 1 and the command is kept for
\* the retry.
C3_Witness ==
    /\ turn.ev = KeyPress(DROP_RED_KEY) /\ turn.result = "err"
    /\ failedCmd["red"] = CmdAt("red", 1)
    /\ cursor["red"] = 1
    /\ Len(okFired["black"]) = 1

\* C4: a cursor moves only by one step up, and only in the turn of a fire of
\* its class whose invocation, of the command for positions[cursor], returned;
\* it stays within 0 .. length(positions).
C4_CursorAdvancesOnConfirmedInvoke ==
    /\ [](\A c \in Classes : cursor[c] \in 0..Len(Markers(c)))
    /\ [][ \A c \in Classes :
             cursor'[c] # cursor[c] =>
                 /\ cursor'[c] = cursor[c] + 1
                 /\ EventClass(turn'.ev) = c
                 /\ turn'.result = "ok"
                 /\ turn'.confirmed
                 /\ turn'.invoked = <<CmdAt(c, cursor[c])>>
         ]_vars

\* The black cursor has just advanced to 2, red never having been fired.
C4_Witness ==
    /\ turn.ev = KeyPress(DROP_BLACK_KEY) /\ turn.result = "ok"
    /\ cursor["black"] = 2 /\ cursor["red"] = 0

\* C5: after k successful fire cycles of a class its cursor is k and the
\* commands issued were those of positions 1..k in order; with the cursor at
\* N = length(positions) a further fire reports no markers and invokes nothing.
C5_MagazineFiredInOrder ==
    /\ [](\A c \in Classes :
            /\ Len(okFired[c]) = cursor[c]
            /\ cursor[c] <= Len(Markers(c))
            /\ \A k \in 1..Len(okFired[c]) : okFired[c][k] = CmdAt(c, k - 1))
    /\ [][ \A c \in Classes :
             (EventClass(turn'.ev) = c /\ cursor[c] = Len(Markers(c))) =>
                 /\ ~turn'.has_markers
                 /\ turn'.cmd = None
                 /\ turn'.invoked = <<>>
                 /\ cursor'[c] = Len(Markers(c))
         ]_vars

\* The fourth fire of red: three went through, this one found none left.
C5_Witness ==
    /\ okFired["red"] = <<MarkerCmd(1), MarkerCmd(2), MarkerCmd(3)>>
    /\ cursor["red"] = 3
    /\ turn.ev = KeyPress(DROP_RED_KEY) /\ ~turn.has_markers /\ turn.invoked = <<>>

\* C6: a fire on an exhausted class is a normal outcome: nothing is invoked,
\* success() is not called, the turn neither fails nor blocks, and cursors and
\* interlock flags stay as they were.
C6_ExhaustedFireChangesNothing ==
    [][ \A c \in Classes :
          (EventClass(turn'.ev) = c /\ cursor[c] = Len(Markers(c))) =>
              /\ turn'.invoked = <<>>
              /\ ~turn'.confirmed
              /\ turn'.result = "none"
              /\ ~hung'
              /\ cursor' = cursor
              /\ thruster' = thruster
      ]_vars

\* Black is exhausted and fired again while red still has markers and the
\* thruster runs forward.
C6_Witness ==
    /\ turn.ev = KeyPress(DROP_BLACK_KEY) /\ ~turn.has_markers
    /\ cursor["black"] = 3 /\ cursor["red"] = 1
    /\ thruster.forward

\* C7 as stated: a release of w while backward is active leaves BACKWARD and
\* writes "Thruster Backward" to the display in that turn; the same for s and
\* forward.
C7_ReleaseReEmits ==
    [][ /\ (turn'.ev = KeyRelease(THRUSTER_FORWARD_KEY) /\ thruster.backward) =>
             /\ thruster'.backward /\ ~thruster'.forward
             /\ turn'.writes = <<"Thruster Backward">>
        /\ (turn'.ev = KeyRelease(THRUSTER_BACKWARD_KEY) /\ thruster.forward) =>
             /\ thruster'.forward /\ ~thruster'.backward
             /\ turn'.writes = <<"Thruster Forward">>
      ]_vars

\* C7 amended: a release of w while backward is active leaves BACKWARD with the
\* display still reading "Thruster Backward", and writes nothing to it; the
\* same for s and forward.
C7_ReleaseKeepsOther ==
    [][ /\ (turn'.ev = KeyRelease(THRUSTER_FORWARD_KEY) /\ thruster.backward) =>
             /\ thruster'.backward /\ ~thruster'.forward
             /\ thruster'.text_output = "Thruster Backward"
             /\ turn'.writes = <<>>
        /\ (turn'.ev = KeyRelease(THRUSTER_BACKWARD_KEY) /\ thruster.forward) =>
             /\ thruster'.forward /\ ~thruster'.backward
             /\ thruster'.text_output = "Thruster Forward"
             /\ turn'.writes = <<>>
      ]_vars

\* w was released while backward was active.
C7_Witness == turn.ev = KeyRelease(THRUSTER_FORWARD_KEY) /\ thruster.backward /\ turn.writes = <<>>

\* C8: a release clears its direction's flag and, the other direction not
\* being active, ends in OFF with "Thruster Off" written.  Once both keys have
\* been released with no press since, the state is OFF and the display reads
\* "Thruster Off"; so it is after OFF, press w, press s, release w.
C8_OffStateConsistent ==
    /\ [][ /\ turn'.ev = KeyRelease(THRUSTER_FORWARD_KEY) =>
                /\ ~thruster'.forward
                /\ ~thruster.backward =>
                      /\ ~thruster'.backward
                      /\ thruster'.text_output = "Thruster Off"
                      /\ turn'.writes = <<"Thruster Off">>
           /\ turn'.ev = KeyRelease(THRUSTER_BACKWARD_KEY) =>
                /\ ~thruster'.backward
                /\ ~thruster.forward =>
                      /\ ~thruster'.forward
                      /\ thruster'.text_output = "Thruster Off"
                      /\ turn'.writes = <<"Thruster Off">>
         ]_vars
    /\ [](released = {"forward", "backward"} =>
             Off /\ thruster.text_output = "Thruster Off")
    /\ [](scenario = 3 => Off /\ thruster.text_output = "Thruster Off")

\* The scenario OFF, press w, press s, release w has just run: the press of s
\* was ignored and the release of w wrote "Thruster Off".
C8_Witness ==
    /\ scenario = 3
    /\ turn.ev = KeyRelease(THRUSTER_FORWARD_KEY)
    /\ turn.writes = <<"Thruster Off">>
    /\ released = {"forward"}

\* What interlock and sequencer hold: flags, thruster display, both cursors.
CoreState == <<thruster, cursor>>

\* A display holding exactly the text a remote script returned.
Verbatim(reading) == <<reading>>

\* The frame part of C9: a turn whose invocation failed, and a sensor read that
\* returned, leave flags, thruster display and cursors alone; a sensor read
\* issues one invocation, of its own script.
C9_Frame ==
    /\ turn'.result = "err" => CoreState' = CoreState
    /\ (turn'.ev = KeyPress(TEMP_SENSOR_KEY) /\ turn'.result = "ok") =>
          /\ CoreState' = CoreState
          /\ turn'.invoked = <<TempCmd>>
          /\ ph_reading' = ph_reading
    /\ (turn'.ev = KeyPress(PH_SENSOR_KEY) /\ turn'.result = "ok") =>
          /\ CoreState' = CoreState
          /\ turn'.invoked = <<PhCmd>>
          /\ temp_reading' = temp_reading

\* C9 as stated: the frame, and a sensor read that returned sets that sensor's
\* display to the returned text itself.
C9_SensorDisplayIsReading ==
    [][ /\ C9_Frame
        /\ (turn'.ev = KeyPress(TEMP_SENSOR_KEY) /\ turn'.result = "ok") =>
              temp_reading' = Verbatim(turn'.reading)
        /\ (turn'.ev = KeyPress(PH_SENSOR_KEY) /\ turn'.result = "ok") =>
              ph_reading' = Verbatim(turn'.reading)
      ]_vars

\* C9 amended: the frame, and a sensor read that returned sets that sensor's
\* display to the sensor's label text followed by the returned text, unaltered.
C9_SensorDisplayIsLabelledReading ==
    [][ /\ C9_Frame
        /\ (turn'.ev = KeyPress(TEMP_SENSOR_KEY) /\ turn'.result = "ok") =>
              temp_reading' = <<"Last Temperature\nReading: ", turn'.reading>>
        /\ (turn'.ev = KeyPress(PH_SENSOR_KEY) /\ turn'.result = "ok") =>
              ph_reading' = <<"Last pH Reading: \n", turn'.reading>>
      ]_vars

\* A temperature read returned its second text, after a marker drop had failed,
\* with the thruster running.
C9_Witness ==
    /\ turn.ev = KeyPress(TEMP_SENSOR_KEY) /\ turn.result = "ok"
    /\ turn.reading = ReadingTexts[NumReadings]
    /\ temp_reading[2] = turn.reading
    /\ failedCmd["red"] # None
    /\ thruster.backward

Other(c) == IF c = "red" THEN "black" ELSE "red"

\* C13 as stated: a release of one thruster key while the other key is still
\* down, its press accepted or not, leaves the other direction active.
C13_ReleaseReactivatesHeld ==
    [][ /\ ( /\ turn'.ev = KeyRelease(THRUSTER_FORWARD_KEY)
             /\ THRUSTER_BACKWARD_KEY \in down ) =>
               thruster'.backward /\ ~thruster'.forward
        /\ ( /\ turn'.ev = KeyRelease(THRUSTER_BACKWARD_KEY)
             /\ THRUSTER_FORWARD_KEY \in down ) =>
               thruster'.forward /\ ~thruster'.backward
      ]_vars

\* C13 amended: a release of one thruster key while the other key is still
\* down leaves the other direction active if it was active (its press had been
\* accepted); if its press had been ignored, the release ends in OFF with
\* "Thruster Off" written: a key that is down but was ignored is not activated.
C13_ReleaseKeepsActiveOnly ==
    [][ /\ ( /\ turn'.ev = KeyRelease(THRUSTER_FORWARD_KEY)
             /\ THRUSTER_BACKWARD_KEY \in down ) =>
               IF thruster.backward
               THEN thruster'.backward /\ ~thruster'.forward
               ELSE ~thruster'.backward /\ ~thruster'.forward
                    /\ turn'.writes = <<"Thruster Off">>
        /\ ( /\ turn'.ev = KeyRelease(THRUSTER_BACKWARD_KEY)
             /\ THRUSTER_FORWARD_KEY \in down ) =>
               IF thruster.forward
               THEN thruster'.forward /\ ~thruster'.backward
               ELSE ~thruster'.forward /\ ~thruster'.backward
                    /\ turn'.writes = <<"Thruster Off">>
      ]_vars

\* w has been released with s still down, its press ignored: the state is OFF.
C13_Witness ==
    /\ turn.ev = KeyRelease(THRUSTER_FORWARD_KEY)
    /\ down = {THRUSTER_BACKWARD_KEY}
    /\ scenario = 3
    /\ Off

\* C14: a fire of one class, whatever its outcome, leaves the other class's
\* cursor alone, and the success() that follows an invocation that returned
\* advances the cursor of the class fired.
C14_MagazinesIndependent ==
    [][ \A c \in Classes :
          EventClass(turn'.ev) = c =>
              /\ cursor'[Other(c)] = cursor[Other(c)]
              /\ turn'.confirmed = (turn'.result = "ok")
              /\ turn'.confirmed => cursor'[c] = cursor[c] + 1
              /\ ~turn'.confirmed => cursor'[c] = cursor[c]
      ]_vars

\* A black marker has been dropped and confirmed right after the fire of a red
\* one had failed, the dropper's last fire having been red.
C14_Witness ==
    /\ turn.ev = KeyPress(DROP_BLACK_KEY) /\ turn.confirmed
    /\ failedCmd["red"] = CmdAt("red", 2)
    /\ cursor = [red |-> 2, black |-> 1]

\* C16: the thruster display agrees with the flags: "Thruster Forward" exactly
\* when forward is set, "Thruster Backward" exactly when backward is set,
\* "Thruster Off" exactly when neither is.
C16_DisplayAgreesWithFlags ==
    /\ thruster.forward <=> thruster.text_output = "Thruster Forward"
    /\ thruster.backward <=> thruster.text_output = "Thruster Backward"
    /\ Off <=> thruster.text_output = "Thruster Off"

\* Backward is active and on display after an ignored press and the release of w.
C16_Witness ==
    /\ thruster.backward /\ thruster.text_output = "Thruster Backward"
    /\ turn.ev = KeyRelease(THRUSTER_FORWARD_KEY)
    /\ released = {"forward"}

\* C11: with use_zero the session to the Pi Zero is opened only once the
\* session to the companion is open, and runs over a direct-tcpip channel of
\* the companion session's transport, from the companion's address to the Pi
\* Zero's as the companion sees it; the surface computer opens no network
\* connection but the one to the companion, so whatever is sent on zero_ssh
\* travels inside the companion's session.
C11_ZeroTunnelledThroughCompanion ==
    /\ [](zero_ssh.open =>
            /\ use_zero
            /\ ssh.open /\ ssh.sock = <<>>
            /\ zero_ssh.host = ZERO
            /\ Len(zero_ssh.sock) = 1
            /\ zero_ssh.sock[1].kind = "direct-tcpip"
            /\ zero_ssh.sock[1].transport = "ssh"
            /\ zero_ssh.sock[1].src_addr = <<ssh.host, 22>>
            /\ zero_ssh.sock[1].dest_addr = zero_addr)
    /\ [](\A i \in 1..Len(connections) : connections[i] = COMPANION)
    /\ [][(~zero_ssh.open /\ zero_ssh'.open) => ssh.open]_vars

\* The window runs with both sessions open and a key has been handled.
C11_Witness ==
    /\ pc = "mainloop" /\ use_zero
    /\ zero_ssh.open /\ ssh.open
    /\ connections = <<COMPANION>>
    /\ turn.ev = KeyPress(THRUSTER_FORWARD_KEY)

\* C17: every command sent, the daemon start included, is sent on self.ssh,
\* with or without use_zero; zero_ssh, once open, carries none.
C17_EveryInvocationOnPrimary ==
    /\ Len(turn.via) = Len(turn.invoked)
    /\ \A i \in 1..Len(turn.via) : turn.via[i] = "ssh"

\* With the Pi Zero's session open, a pH reading was taken over self.ssh.
C17_Witness ==
    /\ use_zero /\ zero_ssh.open
    /\ turn.ev = KeyPress(PH_SENSOR_KEY) /\ turn.result = "ok"
    /\ turn.invoked = <<PhCmd>> /\ turn.via = <<"ssh">>

\* ------------------------------------------------ the event loop, step by step
\* mainloop() with the blocking calls made visible: key events arrive at any
\* time and wait in the queue; the loop takes the oldest one when no handler
\* is in progress; a handler that calls exec_and_print stays in progress, its
\* locals kept in `call`, until the call returns or raises.  A call that never
\* returns leaves the handler in progress for good.

MaxQueue == 2

Events ==
    ThrusterEvents \cup {KeyPress(TEMP_SENSOR_KEY), KeyPress(PH_SENSOR_KEY),
                         KeyPress(DROP_RED_KEY), KeyPress(DROP_BLACK_KEY)}

\* Which text a sensor script returns plays no part in the order of the steps:
\* one text stands for all of them here.
AReading == ReadingTexts[1]

event_arrives ==
    /\ pc = "mainloop"
    /\ Len(queue) < MaxQueue
    /\ \E ev \in Events : queue' = Append(queue, ev)
    /\ UNCHANGED <<gui, hung, pc, relay, call, turn, history>>

\* Faulty variant: events dispatched from inside a blocked handler.
Free_Reentrant == pc = "mainloop" /\ ~hung

\* The loop dispatches only between handlers.
Free == pc = "mainloop" /\ ~hung /\ call = <<>>

\* The loop hands the oldest pending event to its handler.
Dispatch(ev) ==
    /\ Free
    /\ queue # <<>> /\ Head(queue) = ev
    /\ queue' = Tail(queue)
    /\ turn' = turn

\* A handler blocked in exec_and_print is the innermost frame of `call`.
Blocked(ev) == ~hung /\ call # <<>> /\ Head(call).ev = ev

thruster_turn ==
    /\ \E ev \in ThrusterEvents :
          /\ Dispatch(ev)
          /\ LET s2 == IF ev = KeyPress(THRUSTER_FORWARD_KEY) THEN thruster_forward(Entering)
                       ELSE IF ev = KeyRelease(THRUSTER_FORWARD_KEY) THEN thruster_forward_off(Entering)
                       ELSE IF ev = KeyPress(THRUSTER_BACKWARD_KEY) THEN thruster_backward(Entering)
                       ELSE thruster_backward_off(Entering)
             IN  thruster' = [f \in {"forward", "backward", "text_output"} |-> s2[f]]
    /\ UNCHANGED <<ph_reading, temp_reading, markerdropper, hung, pc, relay, call, history>>

read_temp_sensor_call ==
    /\ Dispatch(KeyPress(TEMP_SENSOR_KEY))
    /\ call' = <<[ev |-> KeyPress(TEMP_SENSOR_KEY), cmd |-> TempCmd]>> \o call
    /\ UNCHANGED <<gui, hung, pc, relay, history>>

\* Faulty variant: a read that has hung is given up after a while.
read_temp_sensor_return_Timeout ==
    /\ call # <<>> /\ Head(call).ev = KeyPress(TEMP_SENSOR_KEY)
    /\ \E res \in Outcomes :
          /\ temp_reading' = IF res = "ok" THEN Format(TEMP_TEXT, AReading) ELSE temp_reading
          /\ hung' = (res = "hang")
          /\ call' = IF res = "hang" THEN call ELSE Tail(call)
    /\ UNCHANGED <<thruster, ph_reading, markerdropper, pc, relay, queue, turn, history>>

read_temp_sensor_return ==
    /\ Blocked(KeyPress(TEMP_SENSOR_KEY))
    /\ \E res \in Outcomes :
          /\ temp_reading' = IF res = "ok" THEN Format(TEMP_TEXT, AReading) ELSE temp_reading
          /\ hung' = (res = "hang")
          /\ call' = IF res = "hang" THEN call ELSE Tail(call)
    /\ UNCHANGED <<thruster, ph_reading, markerdropper, pc, relay, queue, turn, history>>

read_ph_sensor_call ==
    /\ Dispatch(KeyPress(PH_SENSOR_KEY))
    /\ call' = <<[ev |-> KeyPress(PH_SENSOR_KEY), cmd |-> PhCmd]>> \o call
    /\ UNCHANGED <<gui, hung, pc, relay, history>>

read_ph_sensor_return ==
    /\ Blocked(KeyPress(PH_SENSOR_KEY))
    /\ \E res \in Outcomes :
          /\ ph_reading' = IF res = "ok" THEN Format(PH_TEXT, AReading) ELSE ph_reading
          /\ hung' = (res = "hang")
          /\ call' = IF res = "hang" THEN call ELSE Tail(call)
    /\ UNCHANGED <<thruster, temp_reading, markerdropper, pc, relay, queue, turn, history>>

\* drop_marker up to the exec_and_print: the fire, and the test of has_markers.
drop_marker_call ==
    /\ \E isRed \in BOOLEAN :
          LET ev == IF isRed THEN KeyPress(DROP_RED_KEY) ELSE KeyPress(DROP_BLACK_KEY)
              f  == IF isRed THEN drop_red_marker(markerdropper)
                             ELSE drop_black_marker(markerdropper)
          IN  /\ Dispatch(ev)
              /\ markerdropper' = f.md
              /\ call' = IF f.has_markers THEN <<[ev |-> ev, cmd |-> f.cmd]>> \o call
                                          ELSE call
    /\ UNCHANGED <<thruster, ph_reading, temp_reading, hung, pc, relay, history>>

\* drop_marker from the return of exec_and_print: the confirm, or the exception.
drop_marker_return ==
    /\ \E ev \in {KeyPress(DROP_RED_KEY), KeyPress(DROP_BLACK_KEY)} :
          /\ Blocked(ev)
          /\ \E res \in Outcomes :
                /\ markerdropper' = IF res = "ok" THEN success(markerdropper)
                                                  ELSE markerdropper
                /\ okFired' = IF res = "ok"
                              THEN [okFired EXCEPT ![EventClass(ev)] = Append(@, Head(call).cmd)]
                              ELSE okFired
                /\ hung' = (res = "hang")
                /\ call' = IF res = "hang" THEN call ELSE Tail(call)
    /\ UNCHANGED <<thruster, ph_reading, temp_reading, pc, relay, queue, turn,
                   failedCmd, released, down, scenario>>

NextTurns ==
    \/ event_arrives
    \/ thruster_turn
    \/ read_temp_sensor_call
    \/ read_temp_sensor_return
    \/ read_ph_sensor_call
    \/ read_ph_sensor_return
    \/ drop_marker_call
    \/ drop_marker_return

SpecTurns == Init /\ [][NextTurns]_vars

\* The step is the start of the handler bound to ev.
HandlerOf(ev) ==
    \/ ev \in ThrusterEvents /\ thruster_turn
    \/ ev = KeyPress(TEMP_SENSOR_KEY) /\ read_temp_sensor_call
    \/ ev = KeyPress(PH_SENSOR_KEY) /\ read_ph_sensor_call
    \/ EventClass(ev) \in Classes /\ drop_marker_call

Arrival == \E ev \in Events : queue' = Append(queue, ev)

Firing == call # <<>> /\ EventClass(Head(call).ev) \in Classes

\* C12: a fire, its command and its confirm are one unit.  At most one handler
\* is in progress; from the fire until its call returns or raises, no handler
\* is started and nothing of the window's state changes, events only queue up;
\* the step that ends the fire is its own confirm (the cursor of the fired
\* class advances by one) or its own failure (no cursor moves); so no command
\* is ever confirmed twice.
C12_FireIsSingleFlight ==
    /\ [](Len(call) <= 1)
    /\ [](Firing => /\ markerdropper.pending = EventClass(Head(call).ev)
                    /\ Head(call).cmd = CmdAt(markerdropper.pending, cursor[markerdropper.pending]))
    /\ [][Firing =>
            \/ /\ call' = call
               /\ UNCHANGED <<gui, turn>>
               /\ queue' = queue \/ Arrival
            \/ /\ call' = <<>>
               /\ queue' = queue
               /\ UNCHANGED <<thruster, ph_reading, temp_reading, turn>>
               /\ \/ cursor' = cursor
                  \/ cursor' = [cursor EXCEPT ![EventClass(Head(call).ev)] = @ + 1]]_vars
    /\ [](\A c \in Classes : \A i, j \in 1..Len(okFired[c]) :
              okFired[c][i] = okFired[c][j] => i = j)

\* A second fire of the same class waited in the queue while the first was
\* blocked, and has now been confirmed in its turn.
C12_Witness ==
    /\ Len(okFired["red"]) = 2
    /\ call = <<>>
    /\ queue = <<KeyPress(DROP_RED_KEY)>>

\* C15: exec_and_print blocks the loop.  While a call is out no event is taken
\* from the queue and flags, texts and cursors keep their values; a call that
\* never returns keeps them for good, whatever arrives; once a call has
\* returned or raised, the loop is free again and takes the waiting events
\* oldest first.
C15_InvocationBlocksTheLoop ==
    /\ [][hung => /\ hung'
                  /\ UNCHANGED <<gui, call, turn>>
                  /\ queue' = queue \/ Arrival]_vars
    /\ [][(call # <<>> /\ call' = call) =>
              /\ UNCHANGED <<gui, turn>>
              /\ queue' = queue \/ Arrival]_vars
    /\ [][queue' # queue =>
              \/ Arrival
              \/ /\ call = <<>> /\ ~hung
                 /\ queue' = Tail(queue)
                 /\ HandlerOf(Head(queue))]_vars
    /\ []((call = <<>> /\ queue # <<>>) =>
              ENABLED (thruster_turn \/ read_temp_sensor_call
                       \/ read_ph_sensor_call \/ drop_marker_call))

\* The temperature read never returned while the thruster ran forward, and
\* the release of the forward key waits in the queue.
C15_Witness ==
    /\ hung
    /\ call # <<>> /\ Head(call).ev = KeyPress(TEMP_SENSOR_KEY)
    /\ thruster.forward
    /\ thruster.text_output = "Thruster Forward"
    /\ queue = <<KeyRelease(THRUSTER_FORWARD_KEY), KeyPress(DROP_RED_KEY)>>

=============================================================================
